---- MODULE Spec2Model ----
(***************************************************************************)
(* Model of petri's environment (env.go): the cell store guarded by an     *)
(* RWMutex, the worker goroutines (Env.process), the coordinator           *)
(* (Env.Run), the redirect goroutines a starved Advance spawns, and the    *)
(* channels between them.                                                  *)
(*                                                                         *)
(* Unbuffered channels (inflow, exec) are rendezvous: a send and the       *)
(* matching receive are one joint step of sender and receiver.  The        *)
(* buffered channel dts is a FIFO of capacity processN.  The output sink   *)
(* (deltas) is always consumed, so a send on it always completes.          *)
(***************************************************************************)
EXTENDS Integers, Sequences, FiniteSets, TLC

\* ---- bounds of the model --------------------------------------------------
MaxCells == 2
MaxWorkers == 2
MaxPop == 3
MaxRequests == 3
MaxFreq == 2
MaxSetConfig == 1

MaxDeltaLen == 2
MaxApplies == 2

MaxNegFreq == 1
MaxGridCells == 6
MaxIDs == 4

VARIABLES
    Width,        \* e.Width
    Height,       \* e.Height
    processN,     \* Run's processN: the number of workers
    pop,          \* the initPop NewEnv was given
    initPop,      \* e.initPop, counted down by seeding
    config,       \* e.config
    cells,        \* e.cells
    liveCells,    \* e.liveCells
    cellsBuf,     \* e.cellsBuf
    runClosed,    \* "no", or the phase of Run in which Stop closed e.run
    closed,       \* the channels Run has closed, in closing order
    defers,       \* Run's stack of deferred calls
    dts,          \* the delta-collection channel's buffer
    output,       \* ids of the Deltas sent on the output sink, in order
    applied,      \* ids of the Deltas applyDelta has completed, in order
    committed,    \* the store as the last completed applyDelta left it
    coord,        \* the coordinator's position in Run
    cur,          \* the Delta the coordinator dequeued
    ai,           \* applyDelta's position in cur.Cells
    inflowTick,   \* Run's countdown
    ticks,        \* ticks received so far
    advSent,      \* Advance requests sent by the coordinator
    tickLog,      \* the ticks on which a periodic Introduce was sent
    wpc,          \* each worker's position in process
    wi,           \* each worker's local i (or the index getRandomCell drew)
    wdt,          \* the Delta each worker is sending
    redir,        \* redirect goroutines blocked on inflow <- true
    nextId,       \* the position the next send on dts gets
    cfgSets,      \* SetConfig calls made while Run is running
    call,         \* the last GetCell / getNeighbor call and what it did
    cellID,       \* the identifier goroutine's local id
    rq,           \* each caller of getNextCellID: where it is, what it got
    handed        \* the identifiers received from e.nextCellID, in order

\* ---- grid, cells, deltas --------------------------------------------------
NCells == Width * Height
Indices == 0 .. (NCells - 1)
Workers == 1 .. MaxWorkers

Cell(i, a) == [idx |-> i, alive |-> a]
newCell(i) == Cell(i, FALSE)
live(c) == c.alive
clone(c) == c

Configs == [InflowFrequency : (0 - MaxNegFreq) .. MaxFreq, SeedLiveCells : BOOLEAN]

\* A Delta: its cell snapshots, the operation that made it, and (once it is
\* in the collection channel) its position in the order of sends.
NoDelta == [id |-> 0, kind |-> "none", Cells |-> << >>]

\* Cell.seed: the introduce collaborator makes its target cell alive.
seed(c) == [id |-> 0, kind |-> "intro", Cells |-> << Cell(c.idx, TRUE) >>]

\* The cell to the right of c on the torus (getNeighbor, DIR_RIGHT).
RightOf(c) == IF c.idx % Width = Width - 1 THEN c.idx - (Width - 1) ELSE c.idx + 1

\* Cell.exec: the outcomes of one step of the organism at c that the model
\* distinguishes: the cell lives on and makes its neighbour alive, or it
\* reports itself twice, first alive and then dead.
ExecCells(c) ==
    { << Cell(c.idx, TRUE), Cell(RightOf(c), TRUE) >>,
      << Cell(c.idx, TRUE), Cell(c.idx, FALSE) >> }

\* ---- GetCell and getNeighbor ----------------------------------------------
DIR_LEFT == 0
DIR_RIGHT == 1
DIR_UP == 2
DIR_DOWN == 3
Directions == {DIR_LEFT, DIR_RIGHT, DIR_UP, DIR_DOWN}

\* The coordinates NewEnv gives the cell at an index.
CellX(c) == c.idx % Width
CellY(c) == c.idx \div Width

NoCell == Cell(0 - 1, FALSE)

\* x + e.Width * y (the int32 sum does not wrap for the grids of the model).
CellIndex(x, y) == x + Width * y

\* e.cells[x + e.Width * y].clone(): indexing the slice panics exactly when
\* the index is outside 0 .. len(e.cells)-1.
GetCell(x, y) ==
    IF CellIndex(x, y) \in Indices
       THEN [panics |-> FALSE, cell |-> clone(cells[CellIndex(x, y)])]
       ELSE [panics |-> TRUE, cell |-> NoCell]

\* (a step to the next coordinate that does not wrap)
NeighborNoWrap(x, y, dir) ==
    CASE dir = DIR_LEFT -> << x - 1, y >>
      [] dir = DIR_RIGHT -> << x + 1, y >>
      [] dir = DIR_UP -> << x, y - 1 >>
      [] dir = DIR_DOWN -> << x, y + 1 >>
      [] OTHER -> << x, y >>

\* getNeighbor's switch: the coordinates it hands to GetCell.
Neighbor(x, y, dir) ==
    CASE dir = DIR_LEFT -> << IF x = 0 THEN Width - 1 ELSE x - 1, y >>
      [] dir = DIR_RIGHT -> << IF x = Width - 1 THEN 0 ELSE x + 1, y >>
      [] dir = DIR_UP -> << x, IF y = 0 THEN Height - 1 ELSE y - 1 >>
      [] dir = DIR_DOWN -> << x, IF y = Height - 1 THEN 0 ELSE y + 1 >>
      [] OTHER -> << x, y >>

getNeighbor(c, dir) ==
    LET n == Neighbor(CellX(c), CellY(c), dir) IN GetCell(n[1], n[2])

NoCall == [op |-> "none", x |-> 0, y |-> 0, dir |-> 0, panics |-> FALSE, cell |-> NoCell]

\* ---- the identifier goroutine and its callers ------------------------------
Idle == [pc |-> "idle", since |-> 0, got |-> 0]

\* (an identifier that is not advanced)
NextIDSame(n) == n

\* id++
NextID(n) == n + 1

vars == << Width, Height, processN, pop, initPop, config, cells, liveCells,
           cellsBuf, runClosed, closed, defers, dts, output, applied,
           committed, coord, cur, ai,
           inflowTick, ticks, advSent, tickLog, wpc, wi, wdt, redir, nextId,
           cfgSets, call, cellID, rq, handed >>

storeVars == << cells, liveCells, committed, ai >>
chanVars == << closed, defers, dts, output, applied >>
tickVars == << inflowTick, ticks, advSent, tickLog >>
workerVars == << wpc, wi, wdt, nextId >>
callVars == << call, cellID, rq, handed >>
envVars == << Width, Height, processN, pop, config, runClosed, cfgSets, callVars >>

Procs == 1 .. processN
IsClosed(ch) == \E k \in 1 .. Len(closed) : closed[k] = ch

\* ---- the RWMutex ----------------------------------------------------------
writerIn == coord \in {"applyLive", "applyStore", "applyUnlock"}
readersIn == {w \in Procs : wpc[w] \in {"deadDraw", "liveDraw", "cellRead"}}

\* (a lock that lets a reader in beside the writer)
RLockNoWait == TRUE

\* mutex.RLock returns only while no writer holds the lock.
CanRLock == ~writerIn

\* mutex.Lock returns only while no reader and no writer holds the lock.
CanLock == readersIn = {}

\* ---- NewEnv and the entry of Run -----------------------------------------
\* The grids of at most n cells.
NewGrid(n) ==
    /\ Width \in 1 .. n
    /\ Height \in {h \in 1 .. n : Width * h <= n}

\* What NewEnv and the entry of Run set up on a grid of the given size.
InitEnv ==
    /\ processN \in 1 .. MaxWorkers
    /\ pop \in 0 .. MaxPop
    /\ initPop = pop
    /\ config \in Configs
    /\ cells = [i \in Indices |-> newCell(i)]
    /\ liveCells = {}
    /\ cellsBuf = [i \in Indices |-> 0]
    /\ runClosed = "no"
    /\ closed = << >>
    /\ defers = << "inflow", "dts", "deltas" >>
    /\ dts = << >>
    /\ output = << >>
    /\ applied = << >>
    /\ committed = [cells |-> cells, liveCells |-> liveCells]
    /\ coord = "seed"
    /\ cur = NoDelta
    /\ ai = 0
    /\ inflowTick = 0
    /\ ticks = 0
    /\ advSent = 0
    /\ tickLog = {}
    /\ wpc = [w \in Workers |-> IF w <= processN THEN "select" ELSE "none"]
    /\ wi = [w \in Workers |-> 0]
    /\ wdt = [w \in Workers |-> NoDelta]
    /\ redir = 0
    /\ nextId = 1
    /\ cfgSets = 0
    /\ call = NoCall
    /\ cellID = 1
    /\ rq = [w \in Workers |-> Idle]
    /\ handed = << >>

Init == NewGrid(MaxCells) /\ InitEnv

\* ---- the sampler ----------------------------------------------------------
\* The ways a loop can enumerate the set S into positions 0 .. |S|-1.
Orderings(S) ==
    {f \in [0 .. (Cardinality(S) - 1) -> S] : \A a, b \in DOMAIN f : a # b => f[a] # f[b]}

\* Range over e.cells visits the indices in increasing order.
Ascending(S) == CHOOSE f \in Orderings(S) : \A a, b \in DOMAIN f : a < b => f[a] < f[b]

\* cellsBuf after the enumeration f has been written to its first positions.
WriteBuf(buf, f) == [j \in Indices |-> IF j \in DOMAIN f THEN f[j] ELSE buf[j]]

DeadIndices == {i \in Indices : i \notin liveCells}

\* (a sampler that also gives up on a single candidate)
NoneQualifiesUpToOne(i) == i <= 1

\* if i == 0 { return nil }
NoneQualifies(i) == i = 0

\* ---- Env.process: one worker ---------------------------------------------
\* case <-inflow, the request coming from a redirect goroutine.
ReceiveRedirect(w) ==
    /\ wpc[w] = "select"
    /\ redir > 0
    /\ ~IsClosed("inflow")
    /\ redir' = redir - 1
    /\ wpc' = [wpc EXCEPT ![w] = "intro"]
    /\ UNCHANGED << wi, wdt, nextId, initPop, cellsBuf, coord, cur >>
    /\ UNCHANGED << storeVars, chanVars, tickVars, envVars >>

\* case _, ok := <-exec with ok false: the worker returns.
WorkerExit(w) ==
    /\ wpc[w] = "select"
    /\ IsClosed("exec")
    /\ wpc' = [wpc EXCEPT ![w] = "done"]
    /\ UNCHANGED << wi, wdt, nextId, initPop, cellsBuf, coord, cur, redir >>
    /\ UNCHANGED << storeVars, chanVars, tickVars, envVars >>

\* getRandomDeadCell up to the end of its loop: RLock, enumerate.
getRandomDeadCell(w) ==
    /\ wpc[w] = "intro"
    /\ ~config.SeedLiveCells
    /\ CanRLock
    /\ cellsBuf' = WriteBuf(cellsBuf, Ascending(DeadIndices))
    /\ wi' = [wi EXCEPT ![w] = Cardinality(DeadIndices)]
    /\ wpc' = [wpc EXCEPT ![w] = "deadDraw"]
    /\ UNCHANGED << wdt, nextId, initPop, coord, cur, redir >>
    /\ UNCHANGED << storeVars, chanVars, tickVars, envVars >>

\* getRandomCell: draw x and y, enter GetCell.
getRandomCell(w) ==
    /\ wpc[w] = "intro"
    /\ config.SeedLiveCells
    /\ CanRLock
    /\ \E x \in 0 .. (Width - 1), y \in 0 .. (Height - 1) :
          wi' = [wi EXCEPT ![w] = x + Width * y]
    /\ wpc' = [wpc EXCEPT ![w] = "cellRead"]
    /\ UNCHANGED << wdt, nextId, initPop, cellsBuf, coord, cur, redir >>
    /\ UNCHANGED << storeVars, chanVars, tickVars, envVars >>

\* The worker leaves the sampler with the clone c and computes c.seed.
SeedCell(w, c) ==
    /\ wdt' = [wdt EXCEPT ![w] = seed(c)]
    /\ UNCHANGED nextId
    /\ wi' = [wi EXCEPT ![w] = 0]
    /\ wpc' = [wpc EXCEPT ![w] = "send"]

\* getRandomDeadCell from i == 0 on: nil, or the draw and the clone.
DeadDraw(w) ==
    /\ wpc[w] = "deadDraw"
    /\ IF NoneQualifies(wi[w])
          THEN /\ wpc' = [wpc EXCEPT ![w] = "select"]
               /\ UNCHANGED << wi, wdt, nextId >>
          ELSE \E k \in 0 .. (wi[w] - 1) : SeedCell(w, clone(cells[cellsBuf[k]]))
    /\ UNCHANGED << initPop, cellsBuf, coord, cur, redir >>
    /\ UNCHANGED << storeVars, chanVars, tickVars, envVars >>

\* GetCell's read and RUnlock, for getRandomCell.
CellRead(w) ==
    /\ wpc[w] = "cellRead"
    /\ SeedCell(w, clone(cells[wi[w]]))
    /\ UNCHANGED << initPop, cellsBuf, coord, cur, redir >>
    /\ UNCHANGED << storeVars, chanVars, tickVars, envVars >>

\* getRandomLiveCell up to the end of its loop: RLock, enumerate the map.
getRandomLiveCell(w) ==
    /\ wpc[w] = "exec"
    /\ CanRLock
    /\ \E f \in Orderings(liveCells) : cellsBuf' = WriteBuf(cellsBuf, f)
    /\ wi' = [wi EXCEPT ![w] = Cardinality(liveCells)]
    /\ wpc' = [wpc EXCEPT ![w] = "liveDraw"]
    /\ UNCHANGED << wdt, nextId, initPop, coord, cur, redir >>
    /\ UNCHANGED << storeVars, chanVars, tickVars, envVars >>

\* getRandomLiveCell from i == 0 on, then c.exec or the redirect goroutine.
LiveDraw(w) ==
    /\ wpc[w] = "liveDraw"
    /\ IF NoneQualifies(wi[w])
          THEN /\ redir' = redir + 1
               /\ wpc' = [wpc EXCEPT ![w] = "select"]
               /\ UNCHANGED << wi, wdt, nextId >>
          ELSE /\ \E k \in 0 .. (wi[w] - 1) :
                    \E cs \in ExecCells(clone(cells[cellsBuf[k]])) :
                       wdt' = [wdt EXCEPT ![w] = [id |-> 0, kind |-> "exec", Cells |-> cs]]
               /\ UNCHANGED nextId
               /\ wi' = [wi EXCEPT ![w] = 0]
               /\ wpc' = [wpc EXCEPT ![w] = "send"]
               /\ UNCHANGED redir
    /\ UNCHANGED << initPop, cellsBuf, coord, cur >>
    /\ UNCHANGED << storeVars, chanVars, tickVars, envVars >>

\* dts <- delta: completes while the buffer has room.
SendDelta(w) ==
    /\ wpc[w] = "send"
    /\ Len(dts) < processN
    /\ ~IsClosed("dts")
    /\ dts' = Append(dts, [wdt[w] EXCEPT !.id = nextId])
    /\ nextId' = nextId + 1
    /\ wdt' = [wdt EXCEPT ![w] = NoDelta]
    /\ wpc' = [wpc EXCEPT ![w] = "select"]
    /\ UNCHANGED << wi, initPop, cellsBuf, coord, cur, redir >>
    /\ UNCHANGED << closed, defers, output, applied >>
    /\ UNCHANGED << storeVars, tickVars, envVars >>

\* ---- Env.applyDelta, one cell at a time ----------------------------------
\* (a membership update that never deletes)
LiveAfterNoDelete(lc, c) == IF live(c) THEN lc \cup {c.idx} ELSE lc

\* e.liveCells after the membership update for the snapshot c.
LiveAfter(lc, c) == IF live(c) THEN lc \cup {c.idx} ELSE lc \ {c.idx}

\* e.cells after e.cells[c.idx] = c.clone().
CellsAfter(cs, c) == [cs EXCEPT ![c.idx] = clone(c)]

applyDeltaLock ==
    /\ coord = "applyLock"
    /\ CanLock
    /\ ai' = 1
    /\ coord' = IF Len(cur.Cells) = 0 THEN "applyUnlock" ELSE "applyLive"
    /\ UNCHANGED << cells, liveCells, committed, cur, initPop, cellsBuf, redir >>
    /\ UNCHANGED << chanVars, tickVars, workerVars, envVars >>

applyDeltaLive ==
    /\ coord = "applyLive"
    /\ liveCells' = LiveAfter(liveCells, cur.Cells[ai])
    /\ coord' = "applyStore"
    /\ UNCHANGED << cells, committed, ai, cur, initPop, cellsBuf, redir >>
    /\ UNCHANGED << chanVars, tickVars, workerVars, envVars >>

applyDeltaStore ==
    /\ coord = "applyStore"
    /\ cells' = CellsAfter(cells, cur.Cells[ai])
    /\ IF ai < Len(cur.Cells)
          THEN ai' = ai + 1 /\ coord' = "applyLive"
          ELSE ai' = ai /\ coord' = "applyUnlock"
    /\ UNCHANGED << liveCells, committed, cur, initPop, cellsBuf, redir >>
    /\ UNCHANGED << chanVars, tickVars, workerVars, envVars >>

applyDeltaUnlock ==
    /\ coord = "applyUnlock"
    /\ committed' = [cells |-> cells, liveCells |-> liveCells]
    /\ applied' = Append(applied, cur.id)
    /\ ai' = 0
    /\ coord' = "forward"
    /\ UNCHANGED << cells, liveCells, cur, initPop, cellsBuf, redir >>
    /\ UNCHANGED << closed, defers, dts, output >>
    /\ UNCHANGED << tickVars, workerVars, envVars >>

\* ---- Env.Run: the coordinator --------------------------------------------
\* A worker in its select accepts the coordinator's inflow <- true.
AcceptIntroduce(w) ==
    /\ wpc[w] = "select"
    /\ ~IsClosed("inflow")
    /\ wpc' = [wpc EXCEPT ![w] = "intro"]

\* for e.initPop > 0 { inflow <- true; e.initPop-- }
Seed(w) ==
    /\ coord = "seed"
    /\ initPop > 0
    /\ AcceptIntroduce(w)
    /\ initPop' = initPop - 1
    /\ UNCHANGED << wi, wdt, nextId, cellsBuf, coord, cur, redir >>
    /\ UNCHANGED << storeVars, chanVars, tickVars, envVars >>

\* The seeding loop ends: the ticker starts and the countdown is loaded.
StartTicker ==
    /\ coord = "seed"
    /\ initPop = 0
    /\ defers' = Append(defers, "ticker")
    /\ inflowTick' = config.InflowFrequency
    /\ coord' = "select"
    /\ UNCHANGED << ticks, advSent, tickLog, initPop, cellsBuf, cur, redir >>
    /\ UNCHANGED << closed, dts, output, applied >>
    /\ UNCHANGED << storeVars, workerVars, envVars >>

\* case _, ok := <-e.run with ok false.
SelectStop ==
    /\ coord = "select"
    /\ runClosed # "no"
    /\ closed' = Append(closed, "exec")
    /\ coord' = "wait"
    /\ UNCHANGED << defers, dts, output, applied, initPop, cellsBuf, cur, redir >>
    /\ UNCHANGED << storeVars, tickVars, workerVars, envVars >>

\* The requests the coordinator has sent so far.
Dispatched == (pop - initPop) + advSent + Cardinality(tickLog)

\* The countdown after one more tick.
Countdown(t) == t - 1

\* (a test that also fires below zero)
DueNonPositive(t) == t <= 0

\* if inflowTick == 0
Due(t) == t = 0

\* case <-ticker.C: the decrement and the test.
SelectTick ==
    /\ coord = "select"
    /\ Dispatched < MaxRequests
    /\ ticks' = ticks + 1
    /\ inflowTick' = Countdown(inflowTick)
    /\ coord' = IF Due(inflowTick') THEN "tickInflow" ELSE "tickExec"
    /\ UNCHANGED << advSent, tickLog, initPop, cellsBuf, cur, redir >>
    /\ UNCHANGED << storeVars, chanVars, workerVars, envVars >>

\* (a countdown that is not loaded again)
ReloadKeep(cfg, t) == t

\* The countdown after a periodic Introduce has been sent.
Reload(cfg, t) == cfg.InflowFrequency

\* inflow <- true; inflowTick = e.GetConfig().InflowFrequency
TickInflow(w) ==
    /\ coord = "tickInflow"
    /\ AcceptIntroduce(w)
    /\ tickLog' = tickLog \cup {ticks}
    /\ inflowTick' = Reload(config, inflowTick)
    /\ coord' = "tickExec"
    /\ UNCHANGED << ticks, advSent, wi, wdt, nextId, initPop, cellsBuf, cur, redir >>
    /\ UNCHANGED << storeVars, chanVars, envVars >>

\* exec <- true
TickExec(w) ==
    /\ coord = "tickExec"
    /\ wpc[w] = "select"
    /\ wpc' = [wpc EXCEPT ![w] = "exec"]
    /\ advSent' = advSent + 1
    /\ coord' = "select"
    /\ UNCHANGED << inflowTick, ticks, tickLog, wi, wdt, nextId, initPop, cellsBuf, cur, redir >>
    /\ UNCHANGED << storeVars, chanVars, envVars >>

\* case dt := <-dts
SelectDelta ==
    /\ coord = "select"
    /\ Len(dts) > 0
    /\ cur' = Head(dts)
    /\ dts' = Tail(dts)
    /\ coord' = "applyLock"
    /\ UNCHANGED << closed, defers, output, applied, initPop, cellsBuf, redir >>
    /\ UNCHANGED << storeVars, tickVars, workerVars, envVars >>

\* (a sink that receives the newest Delta ahead of the earlier ones)
EmitAhead(out, dt) == << dt.id >> \o out

\* The output stream after dt has been sent on it.
Emit(out, dt) == Append(out, dt.id)

\* deltas <- dt
Forward ==
    /\ coord = "forward"
    /\ ~IsClosed("deltas")
    /\ output' = Emit(output, cur)
    /\ cur' = NoDelta
    /\ coord' = "select"
    /\ UNCHANGED << closed, defers, dts, applied, initPop, cellsBuf, redir >>
    /\ UNCHANGED << storeVars, tickVars, workerVars, envVars >>

\* wg.Wait()
Wait ==
    /\ coord = "wait"
    /\ \A w \in Procs : wpc[w] = "done"
    /\ coord' = "return"
    /\ UNCHANGED << initPop, cellsBuf, cur, redir >>
    /\ UNCHANGED << storeVars, chanVars, tickVars, workerVars, envVars >>

\* (deferred calls run in the order they were registered)
NextDeferredFIFO(stack) == [call |-> Head(stack), rest |-> Tail(stack)]

\* The deferred call that runs next, and the stack it leaves: last in, first out.
NextDeferred(stack) ==
    [call |-> stack[Len(stack)], rest |-> SubSeq(stack, 1, Len(stack) - 1)]

\* Run returns: its deferred calls run one by one.
RunDeferred ==
    /\ coord = "return"
    /\ Len(defers) > 0
    /\ LET d == NextDeferred(defers)
       IN /\ defers' = d.rest
          /\ closed' = IF d.call = "ticker" THEN closed ELSE Append(closed, d.call)
          /\ coord' = IF Len(d.rest) = 0 THEN "done" ELSE "return"
    /\ UNCHANGED << dts, output, applied, initPop, cellsBuf, cur, redir >>
    /\ UNCHANGED << storeVars, tickVars, workerVars, envVars >>

\* ---- the callers of the environment --------------------------------------
\* Env.Stop: close(e.run).
Stop ==
    /\ runClosed = "no"
    /\ runClosed' = IF coord = "seed" THEN "seed" ELSE "steady"
    /\ UNCHANGED << Width, Height, processN, pop, config, cfgSets, callVars >>
    /\ UNCHANGED << initPop, cellsBuf, coord, cur, redir >>
    /\ UNCHANGED << storeVars, chanVars, tickVars, workerVars >>

\* Env.SetConfig while Run is running.
SetConfig(c) ==
    /\ cfgSets < MaxSetConfig
    /\ coord # "done"
    /\ c # config
    /\ config' = c
    /\ cfgSets' = cfgSets + 1
    /\ UNCHANGED << Width, Height, processN, pop, runClosed, callVars >>
    /\ UNCHANGED << initPop, cellsBuf, coord, cur, redir >>
    /\ UNCHANGED << storeVars, chanVars, tickVars, workerVars >>

Next ==
    \/ \E w \in Workers : ReceiveRedirect(w)
    \/ \E w \in Workers : WorkerExit(w)
    \/ \E w \in Workers : getRandomDeadCell(w)
    \/ \E w \in Workers : getRandomCell(w)
    \/ \E w \in Workers : DeadDraw(w)
    \/ \E w \in Workers : CellRead(w)
    \/ \E w \in Workers : getRandomLiveCell(w)
    \/ \E w \in Workers : LiveDraw(w)
    \/ \E w \in Workers : SendDelta(w)
    \/ \E w \in Workers : Seed(w)
    \/ StartTicker
    \/ SelectStop
    \/ SelectTick
    \/ \E w \in Workers : TickInflow(w)
    \/ \E w \in Workers : TickExec(w)
    \/ SelectDelta
    \/ applyDeltaLock
    \/ applyDeltaLive
    \/ applyDeltaStore
    \/ applyDeltaUnlock
    \/ Forward
    \/ Wait
    \/ RunDeferred
    \/ Stop

\* Runs in which the Config given before Run stays in place.
Spec == Init /\ [][Next]_vars

\* Runs with one worker in which SetConfig is also called while Run is running.
InitCfg == Init /\ processN = 1

NextCfg ==
    \/ Next
    \/ \E c \in Configs : SetConfig(c)

SpecCfg == InitCfg /\ [][NextCfg]_vars

\* ---- applyDelta on its own: any sequence of calls with any Deltas ---------
AnyCells == {Cell(i, a) : i \in Indices, a \in BOOLEAN}
AnyDeltas ==
    {[id |-> 0, kind |-> "exec", Cells |-> cs] :
        cs \in UNION {[1 .. n -> AnyCells] : n \in 0 .. MaxDeltaLen}}

InitStore ==
    /\ Init
    /\ processN = 1
    /\ pop = 0
    /\ config = [InflowFrequency |-> MaxFreq, SeedLiveCells |-> FALSE]

\* A caller hands applyDelta the Delta dt.
CallApplyDelta(dt) ==
    /\ coord \in {"seed", "select"}
    /\ Len(applied) < MaxApplies
    /\ cur' = [dt EXCEPT !.id = nextId]
    /\ nextId' = nextId + 1
    /\ coord' = "applyLock"
    /\ UNCHANGED << wpc, wi, wdt, initPop, cellsBuf, redir >>
    /\ UNCHANGED << storeVars, chanVars, tickVars, envVars >>

NextStore ==
    \/ \E dt \in AnyDeltas : CallApplyDelta(dt)
    \/ applyDeltaLock
    \/ applyDeltaLive
    \/ applyDeltaStore
    \/ applyDeltaUnlock
    \/ Forward

SpecStore == InitStore /\ [][NextStore]_vars

\* ---- GetCell and getNeighbor called on a fresh environment -----------------
Coords == (0 - MaxGridCells) .. MaxGridCells

InitGrid ==
    /\ NewGrid(MaxGridCells)
    /\ InitEnv
    /\ processN = 1
    /\ pop = 0
    /\ config = [InflowFrequency |-> MaxFreq, SeedLiveCells |-> FALSE]

\* A caller runs GetCell(x, y) to its end: a clone, or the panic.
CallGetCell(x, y) ==
    /\ call = NoCall
    /\ CanRLock
    /\ call' = [op |-> "GetCell", x |-> x, y |-> y, dir |-> 0,
                panics |-> GetCell(x, y).panics, cell |-> GetCell(x, y).cell]
    /\ UNCHANGED << Width, Height, processN, pop, config, runClosed, cfgSets >>
    /\ UNCHANGED << cellID, rq, handed, initPop, cellsBuf, coord, cur, redir >>
    /\ UNCHANGED << storeVars, chanVars, tickVars, workerVars >>

\* A caller runs getNeighbor on the cell at index i to its end.
CallGetNeighbor(i, dir) ==
    /\ i \in Indices
    /\ call = NoCall
    /\ CanRLock
    /\ call' = [op |-> "getNeighbor", x |-> CellX(cells[i]), y |-> CellY(cells[i]),
                dir |-> dir, panics |-> getNeighbor(cells[i], dir).panics,
                cell |-> getNeighbor(cells[i], dir).cell]
    /\ UNCHANGED << Width, Height, processN, pop, config, runClosed, cfgSets >>
    /\ UNCHANGED << cellID, rq, handed, initPop, cellsBuf, coord, cur, redir >>
    /\ UNCHANGED << storeVars, chanVars, tickVars, workerVars >>

\* The caller has looked at the outcome.
Return ==
    /\ call # NoCall
    /\ call' = NoCall
    /\ UNCHANGED << Width, Height, processN, pop, config, runClosed, cfgSets >>
    /\ UNCHANGED << cellID, rq, handed, initPop, cellsBuf, coord, cur, redir >>
    /\ UNCHANGED << storeVars, chanVars, tickVars, workerVars >>

NextGrid ==
    \/ \E x \in Coords, y \in Coords : CallGetCell(x, y)
    \/ \E i \in 0 .. (MaxGridCells - 1), dir \in Directions : CallGetNeighbor(i, dir)
    \/ Return

SpecGrid == InitGrid /\ [][NextGrid]_vars

\* ---- getNextCellID called by the workers while Run is running --------------
InitID ==
    /\ Init
    /\ processN = MaxWorkers
    /\ pop = 0
    /\ config = [InflowFrequency |-> MaxFreq, SeedLiveCells |-> FALSE]

\* A worker enters getNextCellID and waits in <-e.nextCellID.
RequestID(w) ==
    /\ rq[w].pc = "idle"
    /\ Len(handed) < MaxIDs
    /\ rq' = [rq EXCEPT ![w] = [pc |-> "waiting", since |-> Len(handed), got |-> 0]]
    /\ UNCHANGED << Width, Height, processN, pop, config, runClosed, cfgSets >>
    /\ UNCHANGED << call, cellID, handed, initPop, cellsBuf, coord, cur, redir >>
    /\ UNCHANGED << storeVars, chanVars, tickVars, workerVars >>

\* e.nextCellID <- id meets a waiting receive; then id++.
HandOut(w) ==
    /\ rq[w].pc = "waiting"
    /\ rq' = [rq EXCEPT ![w] = [pc |-> "holding", since |-> rq[w].since, got |-> cellID]]
    /\ handed' = Append(handed, cellID)
    /\ cellID' = NextID(cellID)
    /\ UNCHANGED << Width, Height, processN, pop, config, runClosed, cfgSets >>
    /\ UNCHANGED << call, initPop, cellsBuf, coord, cur, redir >>
    /\ UNCHANGED << storeVars, chanVars, tickVars, workerVars >>

\* The worker uses the identifier and is free to ask for another.
UseID(w) ==
    /\ rq[w].pc = "holding"
    /\ rq' = [rq EXCEPT ![w] = Idle]
    /\ UNCHANGED << Width, Height, processN, pop, config, runClosed, cfgSets >>
    /\ UNCHANGED << call, cellID, handed, initPop, cellsBuf, coord, cur, redir >>
    /\ UNCHANGED << storeVars, chanVars, tickVars, workerVars >>

NextIDs ==
    \/ \E w \in Workers : RequestID(w)
    \/ \E w \in Workers : HandOut(w)
    \/ \E w \in Workers : UseID(w)

SpecID == InitID /\ [][NextIDs]_vars

\* ========================================================================
\* The claims
\* ========================================================================
Occurrences(q, x) == Cardinality({k \in 1 .. Len(q) : q[k] = x})
AliveStored == {i \in Indices : live(cells[i])}
AllExited == \A w \in Procs : wpc[w] = "done"

\* C1: no Delta is lost or duplicated across shutdown: no Delta is ever
\* applied twice, and once the output sink is closed every Delta a worker
\* sent, or was committed to sending, has been applied exactly once and
\* appears exactly once in the output.
C1_NoDeltaLostOrDuplicated ==
    /\ \A id \in 1 .. (nextId - 1) : Occurrences(applied, id) <= 1
    /\ IsClosed("deltas") =>
          /\ \A w \in Procs : wdt[w] = NoDelta
          /\ \A id \in 1 .. (nextId - 1) :
                Occurrences(applied, id) = 1 /\ Occurrences(output, id) = 1

\* C2: shutdown is deadlock-free: once the coordinator has observed a Stop
\* made in steady state, Run has returned or some goroutine can still take a
\* step.
C2_ShutdownNeverStuck ==
    (runClosed = "steady" /\ IsClosed("exec")) => (coord = "done" \/ ENABLED Next)

\* C3: no goroutine is sending, or blocked sending, on a channel that has
\* been closed: not the coordinator, not a worker, not a redirect goroutine.
C3_NoSendOnClosed ==
    /\ IsClosed("inflow") =>
          redir = 0 /\ coord # "tickInflow" /\ ~(coord = "seed" /\ initPop > 0)
    /\ IsClosed("exec") => coord # "tickExec"
    /\ IsClosed("dts") => \A w \in Procs : wpc[w] # "send"
    /\ IsClosed("deltas") => coord # "forward"

IsPrefix(p, q) == Len(p) <= Len(q) /\ \A k \in 1 .. Len(p) : p[k] = q[k]

\* C4 as claimed: Run closes the Advance source, waits for the workers, then
\* closes the Introduce source, the collection channel and the output sink,
\* in that order.
C4_ClaimedCloseOrder ==
    /\ IsPrefix(closed, << "exec", "inflow", "dts", "deltas" >>)
    /\ Len(closed) >= 2 => AllExited

\* C4 as amended: Run closes the Advance source, waits for the workers, then
\* closes the output sink, the collection channel and the Introduce source,
\* in that order (its deferred closes run last registered, first run).
C4_CloseOrder ==
    /\ IsPrefix(closed, << "exec", "deltas", "dts", "inflow" >>)
    /\ Len(closed) >= 2 => AllExited

C4_Witness == coord = "done" /\ closed = << "exec", "deltas", "dts", "inflow" >>

\* C5: outside an applyDelta in progress, the alive-membership set is exactly
\* the set of indices whose stored cell is alive, whatever Deltas were applied.
C5_MembershipMatchesCells == ~writerIn => liveCells = AliveStored

\* A Delta that lists one index twice, alive and then dead, has been applied
\* to a store in which that cell was alive.
C5_Witness ==
    /\ coord = "forward"
    /\ Len(applied) = 2
    /\ Len(cur.Cells) = 2
    /\ cur.Cells[1].idx = cur.Cells[2].idx
    /\ live(cur.Cells[1]) /\ ~live(cur.Cells[2])

\* C6: with overwriting disallowed and room for initPop cells, the store
\* holds exactly initPop alive cells at the moment seeding ends.
C6_SeedingYieldsInitPop ==
    (coord = "seed" /\ initPop = 0 /\ ~config.SeedLiveCells /\ NCells >= pop)
        => Cardinality(AliveStored) = pop

\* C7: with overwriting disallowed for the whole run, every Introduce Delta
\* the coordinator applies targets a cell that is dead in the store when it
\* is applied.
C7_IntroduceNeverOverwrites ==
    (~config.SeedLiveCells /\ coord = "applyLock" /\ cur.kind = "intro")
        => ~live(cells[cur.Cells[1].idx])

\* C8: the Introduce request a starved Advance issues is accepted by some
\* worker: once every worker has exited, none is still waiting.
C8_RedirectAccepted == AllExited => redir = 0

\* C9: while a reader holds the read lock, the store is exactly as the last
\* completed applyDelta left it, and the membership set agrees with the
\* stored cells.
C9_ReadersSeeWholeDeltas ==
    readersIn # {} =>
        /\ cells = committed.cells
        /\ liveCells = committed.liveCells
        /\ liveCells = AliveStored

\* A reader is inside the store while the coordinator holds a dequeued Delta
\* that changes two different cells.
C9_Witness ==
    /\ readersIn # {}
    /\ coord = "applyLock"
    /\ Len(cur.Cells) = 2
    /\ cur.Cells[1].idx # cur.Cells[2].idx
    /\ ~live(cells[cur.Cells[2].idx])

\* The ticks, up to tick n, on which a countdown loaded with k reaches zero.
Multiples(k, n) == {t \in 1 .. n : t % k = 0}
InTick == coord \in {"tickInflow", "tickExec"}

\* C10, what holds in every state: every handled tick has sent exactly one
\* Advance, and while InflowFrequency is a constant k >= 1 the periodic
\* Introduces were sent on exactly the ticks k, 2k, ...
C10_Cadence ==
    /\ advSent = (IF InTick THEN ticks - 1 ELSE ticks)
    /\ (coord # "seed" /\ cfgSets = 0 /\ config.InflowFrequency >= 1) =>
          tickLog = Multiples(config.InflowFrequency, IF coord = "tickInflow" THEN ticks - 1 ELSE ticks)

\* C10, what holds of every step: a tick decrements the countdown and calls
\* for an Introduce exactly when it reaches zero; the Introduce is sent once,
\* on that tick, and the countdown is then loaded from the Config current at
\* that moment; SetConfig leaves the running countdown alone.
C10_Step ==
    /\ ticks' # ticks =>
          /\ ticks' = ticks + 1
          /\ inflowTick' = inflowTick - 1
          /\ coord' = (IF inflowTick' = 0 THEN "tickInflow" ELSE "tickExec")
    /\ tickLog' # tickLog =>
          /\ coord = "tickInflow" /\ coord' = "tickExec"
          /\ tickLog' = tickLog \cup {ticks} /\ ticks \notin tickLog
          /\ inflowTick' = config.InflowFrequency
    /\ (coord = "tickInflow" /\ coord' # coord) => tickLog' # tickLog
    /\ (ticks' = ticks /\ tickLog' = tickLog /\ coord # "seed") => inflowTick' = inflowTick

\* C10: tick cadence.
C10_TickCadence == [] C10_Cadence /\ [][C10_Step]_vars

\* SetConfig changed InflowFrequency in the middle of a countdown, and the
\* countdown that was running ended on its own tick.
C10_Witness ==
    /\ cfgSets = 1
    /\ tickLog = {2}
    /\ ticks = 2
    /\ coord = "select"
    /\ config.InflowFrequency = 1
    /\ inflowTick = 1

\* C11: a sampler returns nil exactly when nothing qualifies: the step that
\* ends getRandomLiveCell returns nil if and only if the alive-membership
\* set is empty, and the step that ends getRandomDeadCell returns nil if and
\* only if every cell of the grid is alive.
C11_Step ==
    \A w \in Procs :
        /\ (wpc[w] = "liveDraw" /\ wpc'[w] # "liveDraw") =>
              ((wpc'[w] = "select") <=> (liveCells = {}))
        /\ (wpc[w] = "deadDraw" /\ wpc'[w] # "deadDraw") =>
              ((wpc'[w] = "select") <=> (liveCells = Indices /\ AliveStored = Indices))

C11_NoneIffNothingQualifies == [][C11_Step]_vars

\* getRandomDeadCell has found no dead cell on a grid of two cells, both alive.
C11_Witness ==
    /\ NCells = 2
    /\ \E w \in Procs : wpc[w] = "deadDraw" /\ wi[w] = 0

\* C12, what holds in every state: the Deltas are applied in the order they
\* were sent on (and so dequeued from) the collection channel, the output is
\* the sequence of applications, and at most the Delta being forwarded has
\* been applied without being in the output yet.
C12_Order ==
    /\ applied = [k \in 1 .. Len(applied) |-> k]
    /\ IsPrefix(output, applied)
    /\ Len(applied) = (IF coord = "forward" THEN Len(output) + 1 ELSE Len(output))
    /\ coord = "forward" => applied[Len(applied)] = cur.id

\* C12, what holds of every step: a Delta is dequeued only when every applied
\* Delta has been forwarded, it is the head of the channel, the Delta applied
\* is the one dequeued, and the Delta forwarded is the one just applied.
C12_Step ==
    /\ (dts # << >> /\ dts' = Tail(dts)) =>
          cur' = Head(dts) /\ applied = output /\ cur = NoDelta
    /\ applied' # applied => applied' = Append(applied, cur.id)
    /\ output' # output =>
          output' = Append(output, cur.id) /\ applied' = applied /\ output' = applied

\* C12: application order, dequeue order and output order are the same.
C12_ApplyOrderIsOutputOrder == [] C12_Order /\ [][C12_Step]_vars

\* Three Deltas have gone through the coordinator.
C12_Witness == output = << 1, 2, 3 >> /\ applied = output

\* C13: GetCell with a coordinate outside the grid never returns a cell.
C13_OutOfRangeIsFatal ==
    (call.op = "GetCell" /\
       (call.x < 0 \/ call.x >= Width \/ call.y < 0 \/ call.y >= Height))
        => call.panics

\* C14: the identifiers received are 1, 2, 3, ... in that order, no two
\* callers hold the same one, and a caller's identifier is greater than every
\* identifier received before its request began.
C14_IdentifiersUniqueAndOrdered ==
    /\ handed = [k \in 1 .. Len(handed) |-> k]
    /\ \A w \in Workers : rq[w].pc = "holding" =>
          /\ Occurrences(handed, rq[w].got) = 1
          /\ \A k \in 1 .. rq[w].since : handed[k] < rq[w].got
          /\ \A v \in Workers \ {w} : rq[v].pc = "holding" => rq[v].got # rq[w].got

\* Two requests that began after the first identifier was received, and
\* overlapped, have both been served.
C14_Witness ==
    /\ rq[1].pc = "holding" /\ rq[1].got = 3 /\ rq[1].since = 1
    /\ rq[2].pc = "holding" /\ rq[2].got = 2 /\ rq[2].since = 1

\* C15: getNeighbor on an in-grid cell reads the in-grid cell one step away
\* in the given direction, with wrap-around.
C15_NeighborWraps ==
    call.op = "getNeighbor" =>
        /\ ~call.panics
        /\ call.cell.idx \in Indices
        /\ call.dir = DIR_LEFT =>
              CellX(call.cell) = (call.x - 1) % Width /\ CellY(call.cell) = call.y
        /\ call.dir = DIR_RIGHT =>
              CellX(call.cell) = (call.x + 1) % Width /\ CellY(call.cell) = call.y
        /\ call.dir = DIR_UP =>
              CellX(call.cell) = call.x /\ CellY(call.cell) = (call.y - 1) % Height
        /\ call.dir = DIR_DOWN =>
              CellX(call.cell) = call.x /\ CellY(call.cell) = (call.y + 1) % Height

\* On a grid 2 wide and 3 high, up from the top row has wrapped to the bottom.
C15_Witness ==
    /\ Width = 2 /\ Height = 3
    /\ call.op = "getNeighbor" /\ call.dir = DIR_UP
    /\ call.x = 1 /\ call.y = 0
    /\ call.cell.idx = 5

\* The workers between the enumeration into cellsBuf and the draw from it.
samplersIn == {w \in Procs : wpc[w] \in {"deadDraw", "liveDraw"}}

\* C16: at most one worker at a time is inside the enumerate-then-draw
\* section of the samplers.
C16_OneSamplerAtATime == Cardinality(samplersIn) <= 1

\* C17: the cell getRandomLiveCell returns is in the alive-membership set as
\* it stands during the call, and the cell getRandomDeadCell returns is not.
C17_Step ==
    \A w \in Procs :
        /\ (wpc[w] = "liveDraw" /\ wpc'[w] = "send") =>
              wdt'[w].Cells[1].idx \in liveCells
        /\ (wpc[w] = "deadDraw" /\ wpc'[w] = "send") =>
              wdt'[w].Cells[1].idx \notin liveCells

C17_SampledCellQualifies == [][C17_Step]_vars

AllBlockedSending == Len(dts) = processN /\ \A w \in Procs : wpc[w] = "send"

\* C18: during seeding the coordinator is never waiting to send an Introduce
\* while the collection channel is full and every worker is blocked sending
\* a Delta on it.
C18_SeedingNeverStuck ==
    ~(coord = "seed" /\ initPop > 0 /\ AllBlockedSending)

\* C19: before Stop, the coordinator is never waiting inside its tick
\* handling to send an Advance or an Introduce while the collection channel
\* is full and every worker is blocked sending a Delta on it.
C19_SteadyStateNeverStuck ==
    ~(runClosed = "no" /\ InTick /\ AllBlockedSending)

\* The periodic Introduce is switched off: the countdown is at or below zero
\* and the coordinator is not about to send an Introduce.
Disabled == coord \notin {"seed", "tickInflow"} /\ inflowTick <= 0

\* C20, what holds in every state: while the periodic Introduce is switched
\* off, every handled tick has still sent its Advance.
C20_Advances == Disabled => advSent = (IF InTick THEN ticks - 1 ELSE ticks)

\* C20, what holds of every step: loading a frequency at or below zero
\* switches the periodic Introduce off; once off it stays off, whatever
\* SetConfig installs: the countdown only moves away from zero and no
\* periodic Introduce is sent.
C20_Step ==
    /\ (((coord = "seed" /\ coord' # "seed") \/ (coord = "tickInflow" /\ coord' # coord))
          /\ config.InflowFrequency <= 0) => Disabled'
    /\ Disabled =>
          /\ Disabled'
          /\ inflowTick' <= inflowTick
          /\ tickLog' = tickLog

\* C20: a frequency at or below zero disables the periodic Introduce.
C20_NonPositiveFrequencyDisables == [] C20_Advances /\ [][C20_Step]_vars

\* The countdown was loaded with a frequency at or below zero, SetConfig
\* then installed a positive one, and two ticks later no periodic Introduce
\* has been sent while both Advances have.
C20_Witness ==
    /\ cfgSets = 1
    /\ config.InflowFrequency >= 1
    /\ coord = "select"
    /\ ticks = 2 /\ advSent = 2
    /\ inflowTick < 0
    /\ tickLog = {}
====
